---- MODULE Spec2Model ----
(***************************************************************************)
(* Model of the denoue JSON logger: the document model and the escaper     *)
(* (structs.go), the serializer (the String methods of unnamed/part_000,   *)
(* the stringutil source that reads JArray.ByteVals; stringutil.go holds   *)
(* an earlier JArray.String) and the JLog aggregator (denoue.go).          *)
(*                                                                         *)
(* A Go string is modelled as the sequence of its bytes (ASCII codes), so  *)
(* that sort.Strings, the escaper and the serializer are computed byte by  *)
(* byte as the code computes them.                                         *)
(***************************************************************************)
EXTENDS Integers, Sequences, FiniteSets, TLC

VARIABLES
    out,        \* JLog.out: the sink Write is called on
    msgs,       \* JLog.msgs: the JArray of messages
    level,      \* JLog.level
    timeLayout, \* JLog.timeLayout
    objects,    \* JLog.objects: map key -> JObject
    once,       \* JLog.once: pointer to (index of) the current sync.Once
    onces,      \* the sync.Once objects allocated so far: [done, m]
    mu,         \* JLog.mu: 0 when free, else the thread holding it
    sink,       \* per sink, the sequence of payloads written to it
    pretty,     \* the documents PrettyPrint handed to the external renderer
    lastOp,     \* the last completed operation and what it returned
    nops,       \* number of operations started
    hist,       \* history: messages recorded, Log called, Reset called
    pc,         \* per thread: position inside its current operation
    loc,        \* per thread: locals of its current operation
    arr,        \* serializer harness: a JArray under construction
    arrHist,    \* serializer harness: the Add/AddSafe calls made on arr
    dict,       \* serializer harness: a JDict under construction
    str         \* serializer harness: result of the last String() call

aggVars == <<out, msgs, level, timeLayout, objects, once, onces, mu>>
envVars == <<sink, pretty>>
histVars == <<lastOp, nops, hist>>
thrVars == <<pc, loc>>
serVars == <<arr, arrHist, dict, str>>
vars == <<aggVars, envVars, histVars, thrVars, serVars>>

---------------------------------------------------------------------------
(* Bounds of the model.                                                    *)

MaxOps == 4       \* operations in one sequential run
MaxResets == 1    \* Reset calls (sync.Once objects allocated after New)
MaxArr == 3       \* Add/AddSafe calls on the harness array
MaxKeys == 5      \* keys held by the harness dict
NumThreads == 2   \* concurrent callers
MaxConcOps == 4   \* operations started in one concurrent run
MaxEscLen == 4    \* bytes of a string handed to MakeSafe

---------------------------------------------------------------------------
(* Strings: byte sequences.                                                *)

\* The default layout, cut down to its minute chunk "4": the clock of the
\* model has only a minute, and the other chunks render the same way.
DEFAULT_TIME_LAYOUT == <<52>>

INFO == <<73, 78, 70, 79>>                    \* "INFO"
WARN == <<87, 65, 82, 78>>                    \* "WARN"
ERROR == <<69, 82, 82, 79, 82>>               \* "ERROR"

LEVEL_KEY == <<108, 101, 118, 101, 108>>      \* "level"
TIME_KEY == <<116, 105, 109, 101>>            \* "time"
MSG_KEY == <<109, 115, 103, 115>>             \* "msgs"
ERR_KEY == <<101, 114, 114, 111, 114>>        \* "error"

OC == <<123>>                                 \* "{"
CC == <<125>>                                 \* "}"
OB == <<91>>                                  \* "["
CB == <<93>>                                  \* "]"
QM == <<34>>                                  \* "\""

BS == <<92>>                                  \* "\\"
NL == <<10>>                                  \* "\n"
ColonSp == <<58, 32>>                         \* ": "
CommaSp == <<44, 32>>                         \* ", "

\* The value of a call that panicked (no string has a negative byte).
PANIC == <<-1>>

\* fmt's rendering of a String method that panicked with the runtime error of
\* out[:len(out)-2] on an empty string:
\* "%!v(PANIC=String method: runtime error: slice bounds out of range [:-2])"
PanicText ==
    <<37, 33, 118, 40, 80, 65, 78, 73, 67, 61, 83, 116, 114, 105, 110, 103,
      32, 109, 101, 116, 104, 111, 100, 58, 32, 114, 117, 110, 116, 105, 109,
      101, 32, 101, 114, 114, 111, 114, 58, 32, 115, 108, 105, 99, 101, 32,
      98, 111, 117, 110, 100, 115, 32, 111, 117, 116, 32, 111, 102, 32, 114,
      97, 110, 103, 101, 32, 91, 58, 45, 50, 93, 41>>

\* Go's s < t on strings: bytewise lexicographic order.
StrLess(s, t) ==
    \E i \in 1..(Len(s) + 1) :
        /\ i <= Len(t)
        /\ \A j \in 1..(i - 1) : s[j] = t[j]
        /\ (i = Len(s) + 1 \/ s[i] < t[i])

---------------------------------------------------------------------------
(* structs.go: the document model and the escaper.                         *)

JPair(key, val) == [kind |-> "JPair", Key |-> key, Val |-> val]

NewJArray(key) == [kind |-> "JArray", Key |-> key, Vals |-> <<>>, ByteVals |-> <<>>]

JGroup(key, d) == [kind |-> "JGroup", Key |-> key, Dict |-> d]

\* NewJDict: the empty map (a function with empty domain).
NewJDict == <<>>

GetKey(elem) == elem.Key

\* A map assignment that keeps the value a key already has.
MapSetKeepFirst(m, k, v) ==
    [x \in (DOMAIN m) \cup {k} |-> IF x \in DOMAIN m THEN m[x] ELSE v]

\* m[k] = v on a Go map.
MapSet(m, k, v) == [x \in (DOMAIN m) \cup {k} |-> IF x = k THEN v ELSE m[x]]

\* A delete that empties the map.
MapDeleteAll(m, k) == NewJDict

\* delete(m, k)
MapDelete(m, k) == [x \in (DOMAIN m) \ {k} |-> m[x]]

JDictSet(d, elem) == MapSet(d, GetKey(elem), elem)

JDictSetPair(d, key, val) == MapSet(d, key, JPair(key, val))

\* One byte of WriteEscaped's loop body.
EscByteQuoteAll(c) == <<92, c>>

EscByte(c) == IF c = 34 THEN <<92, c>> ELSE <<c>>

RECURSIVE WriteEscaped(_, _)
WriteEscaped(b, s) ==
    IF s = <<>> THEN b ELSE WriteEscaped(b \o EscByte(Head(s)), Tail(s))

MakeSafe(s) == WriteEscaped(<<>>, s)

RECURSIVE WriteEscapedAll(_, _)
WriteEscapedAll(b, args) ==
    IF args = <<>> THEN b
    ELSE WriteEscapedAll(WriteEscaped(b, Head(args)), Tail(args))

AddSafe(a, format, args) ==
    [a EXCEPT !.ByteVals = Append(@, WriteEscapedAll(WriteEscaped(<<>>, format), args))]

\* An Add that keeps only the value added last.
AddKeepLast(a, val) == [a EXCEPT !.Vals = <<val>>]

Add(a, val) == [a EXCEPT !.Vals = Append(@, val)]

---------------------------------------------------------------------------
(* The serializer (String methods).                                        *)

wrap1(s, tok) == tok \o s \o tok

wrap2(s, open, close) == open \o s \o close

default_keys == <<TIME_KEY, LEVEL_KEY, ERR_KEY>>

inSeq(vals, s) == \E i \in 1..Len(vals) : vals[i] = s

\* for k := range m: the keys in some order (Go leaves the order unspecified).
RECURSIVE RangeKeys(_)
RangeKeys(S) ==
    IF S = {} THEN <<>>
    ELSE LET k == CHOOSE x \in S : TRUE IN <<k>> \o RangeKeys(S \ {k})

\* sort.Strings, as an insertion sort on StrLess.
InsertSorted(x, s) ==
    LET k == Cardinality({i \in 1..Len(s) : ~StrLess(x, s[i])})
    IN SubSeq(s, 1, k) \o <<x>> \o SubSeq(s, k + 1, Len(s))

RECURSIVE SortStrings(_)
SortStrings(s) ==
    IF s = <<>> THEN <<>> ELSE InsertSorted(Head(s), SortStrings(Tail(s)))

NonDefaultUnsorted(ks) == ks

NonDefaultSorted(ks) == SortStrings(ks)

DefaultFirst(d) == SelectSeq(default_keys, LAMBDA k : k \in DOMAIN d)

\* The key order without the test that leaves the default keys out of the
\* sorted part.
JDictKeysUnfiltered(d) == DefaultFirst(d) \o SortStrings(RangeKeys(DOMAIN d))

\* The key order JDict.String builds.
JDictKeys(d) ==
    DefaultFirst(d)
    \o NonDefaultSorted(SelectSeq(RangeKeys(DOMAIN d),
                                  LAMBDA k : ~inSeq(default_keys, k)))

JPairString(p) == wrap1(p.Key, QM) \o ColonSp \o wrap1(p.Val, QM)

RECURSIVE JoinElems(_, _)
JoinElems(vals, first) ==
    IF vals = <<>> THEN <<>>
    ELSE (IF first THEN <<>> ELSE CommaSp) \o wrap1(Head(vals), QM)
         \o JoinElems(Tail(vals), FALSE)

ArrayElemsBytesFirst(a) == a.ByteVals \o a.Vals

ArrayElems(a) == a.Vals \o a.ByteVals

JArrayString(a) ==
    wrap1(a.Key, QM) \o ColonSp \o OB \o JoinElems(ArrayElems(a), TRUE) \o CB

\* JArray.String as stringutil.go has it: only Vals, and arr[:len(arr)-2]
\* panics when Vals is empty.
JArrayStringV1(a) ==
    IF a.Vals = <<>> THEN PANIC
    ELSE wrap1(a.Key, QM) \o ColonSp \o OB \o JoinElems(a.Vals, TRUE) \o CB

\* %v of a Stringer: fmt recovers a panic of the String method and prints it.
fmtV(r) == IF r = PANIC THEN PanicText ELSE r

\* out[:len(out)-2]
TrimSep(s) == IF Len(s) < 2 THEN PANIC ELSE SubSeq(s, 1, Len(s) - 2)

RECURSIVE JDictString(_)
RECURSIVE JObjectString(_)
RECURSIVE JoinEntries(_, _)

JGroupString(g) == wrap1(g.Key, QM) \o ColonSp \o fmtV(JDictString(g.Dict))

JObjectString(o) ==
    CASE o.kind = "JPair" -> JPairString(o)
      [] o.kind = "JArray" -> JArrayString(o)
      [] o.kind = "JGroup" -> JGroupString(o)

JoinEntries(d, keys) ==
    IF keys = <<>> THEN <<>>
    ELSE JObjectString(d[Head(keys)]) \o CommaSp \o JoinEntries(d, Tail(keys))

JDictString(d) ==
    LET t == TrimSep(JoinEntries(d, JDictKeys(d)))
    IN IF t = PANIC THEN PANIC ELSE wrap2(t, OC, CC)

---------------------------------------------------------------------------
(* Inputs the operations are called with.                                  *)

S_a == <<97>>                \* "a"
S_ab == <<97, 98>>           \* "ab"
S_g == <<103>>               \* "g"
S_z == <<122>>               \* "z"
S_x == <<120>>               \* "x"
S_y == <<121>>               \* "y"
S_qb == <<34, 98>>           \* "\"b"
S_bad == <<98, 97, 100>>     \* "bad"
S_T == <<84>>                \* "T"
S_t4 == <<116, 52>>          \* "t4"

Formats == {S_a, S_qb}
ArgLists == {<<>>, <<QM>>, <<S_a, QM>>}
ErrTexts == {S_bad, S_qb}
Sinks == {"stdout", "buf"}
Layouts == {DEFAULT_TIME_LAYOUT, S_t4}
Minutes == {0, 1}

EmptyGroup == JGroup(S_g, NewJDict)
FullGroup == JGroup(S_g, JDictSetPair(NewJDict, S_a, S_x))
SomeArray == Add(NewJArray(S_z), S_a)
EmptyArray == NewJArray(S_z)

FieldObjs ==
    {JPair(S_a, S_x), EmptyGroup, FullGroup, SomeArray, EmptyArray, JPair(TIME_KEY, S_T)}
FieldPairs == {<<S_a, S_y>>, <<ERR_KEY, S_x>>, <<LEVEL_KEY, S_x>>, <<MSG_KEY, S_x>>}
LookupKeys == {S_a, TIME_KEY, ERR_KEY}
Kinds == {"JPair", "JArray", "JGroup"}

\* What a caller-supplied LogFunc may return: level, messages, objects.
LogResults ==
    { [level |-> <<>>, msgs |-> <<>>, objects |-> <<>>],
      [level |-> WARN, msgs |-> <<S_a>>, objects |-> <<JPair(S_a, S_x), JPair(S_a, S_y)>>],
      [level |-> INFO, msgs |-> <<S_qb, S_a>>, objects |-> <<EmptyGroup>>] }

---------------------------------------------------------------------------
(* denoue.go: the aggregator.                                              *)

\* time.Time.Format(time.Now(), layout) for a clock whose minute is `minute`:
\* the layout chunk "4" renders the minute, every other byte is literal.
RECURSIVE TimeFormat(_, _)
TimeFormat(minute, layout) ==
    IF layout = <<>> THEN <<>>
    ELSE (IF Head(layout) = 52 THEN <<48 + minute>> ELSE <<Head(layout)>>)
         \o TimeFormat(minute, Tail(layout))

NewOnce == [done |-> FALSE, m |-> 0]

Init ==
    /\ out = "stdout"
    /\ msgs = NewJArray(MSG_KEY)
    /\ level = INFO
    /\ objects = NewJDict
    /\ once = 1
    /\ onces = <<NewOnce>>
    /\ mu = 0
    /\ timeLayout = DEFAULT_TIME_LAYOUT
    /\ sink = [s \in Sinks |-> <<>>]
    /\ pretty = <<>>
    /\ lastOp = [op |-> "New"]
    /\ nops = 0
    /\ hist = [recorded |-> 0, logCalled |-> FALSE, resets |-> 0,
               prints |-> 0, earlyPrints |-> 0, pretties |-> 0, msgLog |-> <<>>]
    /\ pc = [t \in 1..NumThreads |-> "idle"]
    /\ loc = [t \in 1..NumThreads |-> [op |-> "none"]]
    /\ arr = NewJArray(S_z)
    /\ arrHist = <<>>
    /\ dict = NewJDict
    /\ str = [of |-> "none", val |-> <<>>]

\* Every message stored verbatim in the raw bucket, arguments dropped.
AppendMsgRawOnly(m, format, args) == Add(m, format)

\* if len(args) > 0 { AddSafe } else { Add }
AppendMsg(m, format, args) ==
    IF Len(args) > 0 THEN AddSafe(m, format, args) ELSE Add(m, format)

WarnLevelAlways(l) == WARN

\* if j.level != ERROR { j.level = WARN }
WarnLevel(l) == IF l # ERROR THEN WARN ELSE l

\* The error pair with the text stored as it is.
ErrorPairRaw(text) == JPair(ERR_KEY, text)

\* the error pair Error stores
ErrorPair(text) == JPair(ERR_KEY, MakeSafe(text))

\* The objects stored back to front, so that the first of two objects with
\* the same key stays.
RECURSIVE SetAllFirstWins(_, _)
SetAllFirstWins(m, objs) ==
    IF objs = <<>> THEN m
    ELSE SetAllFirstWins(MapSet(m, GetKey(objs[Len(objs)]), objs[Len(objs)]),
                         SubSeq(objs, 1, Len(objs) - 1))

RECURSIVE SetAll(_, _)
SetAll(m, objs) ==
    IF objs = <<>> THEN m ELSE SetAll(MapSet(m, GetKey(Head(objs)), Head(objs)), Tail(objs))

HasMsgsAlways(m) == TRUE

\* len(j.msgs.Vals) > 0
HasMsgs(m) == Len(m.Vals) > 0

\* A range loop that stores an object only under a key the dict lacks.
SetRangeKeepDefaults(d, objs) ==
    [k \in (DOMAIN d) \cup {GetKey(objs[x]) : x \in DOMAIN objs} |->
        IF k \in DOMAIN d THEN d[k]
        ELSE objs[CHOOSE x \in DOMAIN objs : GetKey(objs[x]) = k]]

\* for _, elem := range j.objects { dict.Set(elem) }
SetRange(d, objs) ==
    [k \in (DOMAIN d) \cup {GetKey(objs[x]) : x \in DOMAIN objs} |->
        IF \E x \in DOMAIN objs : GetKey(objs[x]) = k
        THEN objs[CHOOSE x \in DOMAIN objs : GetKey(objs[x]) = k]
        ELSE d[k]]

\* The dict both emitters start from: the time pair and the level pair.
HeadDict(ts, lvl) == JDictSetPair(JDictSetPair(NewJDict, TIME_KEY, ts), LEVEL_KEY, lvl)

\* The dict Print serializes (when it does not return early).
RecordDict(ts, lvl, m, objs) == SetRange(JDictSet(HeadDict(ts, lvl), m), objs)

\* A PrettyPrint dict that holds the message array even when it is empty.
PrettyDictAlwaysMsgs(ts, lvl, m, objs) == SetRange(JDictSet(HeadDict(ts, lvl), m), objs)

\* The dict PrettyPrint serializes.
PrettyDict(ts, lvl, m, objs) ==
    SetRange(IF HasMsgs(m) THEN JDictSet(HeadDict(ts, lvl), m) ELSE HeadDict(ts, lvl), objs)

PayloadNoNewline(d) == JDictString(d)

\* buf.WriteString(dict.String() + "\n")
Payload(d) == JDictString(d) \o NL

---------------------------------------------------------------------------
(* The body of each operation: what it does to the aggregator, the sinks   *)
(* and the history, between taking and releasing whatever it locks.        *)

MsgCount(m) == Len(m.Vals) + Len(m.ByteVals)

\* Storing elem replaces a different node held under the same key.
Replaces(m, elem) == GetKey(elem) \in DOMAIN m /\ m[GetKey(elem)] # elem

\* The history entry of one recorded message: what the caller passed.
Recorded(format, args) == [format |-> format, args |-> args]

GetBody(k) ==
    /\ lastOp' = IF k \in DOMAIN objects
                 THEN [op |-> "Get", key |-> k, err |-> "nil", obj |-> objects[k]]
                 ELSE [op |-> "Get", key |-> k, err |-> "key not found"]
    /\ UNCHANGED <<out, msgs, level, timeLayout, objects, once, onces, envVars, hist>>

\* The generic Get[T].
GetTBody(k, T) ==
    /\ lastOp' = IF k \notin DOMAIN objects
                 THEN [op |-> "GetT", key |-> k, err |-> "key not found"]
                 ELSE IF objects[k].kind # T
                 THEN [op |-> "GetT", key |-> k, err |-> "could not cast"]
                 ELSE [op |-> "GetT", key |-> k, err |-> "nil", obj |-> objects[k]]
    /\ UNCHANGED <<out, msgs, level, timeLayout, objects, once, onces, envVars, hist>>

\* Pop without the lookup test: removes and reports success for any key.
PopBodyNoCheck(k) ==
    /\ objects' = MapDelete(objects, k)
    /\ lastOp' = [op |-> "Pop", key |-> k, err |-> "nil",
                  obj |-> IF k \in DOMAIN objects THEN objects[k] ELSE NewJDict]
    /\ UNCHANGED <<out, msgs, level, timeLayout, once, onces, envVars, hist>>

PopBody(k) ==
    /\ IF k \in DOMAIN objects
       THEN /\ objects' = MapDelete(objects, k)
            /\ lastOp' = [op |-> "Pop", key |-> k, err |-> "nil", obj |-> objects[k]]
       ELSE /\ objects' = objects
            /\ lastOp' = [op |-> "Pop", key |-> k, err |-> "key not found"]
    /\ UNCHANGED <<out, msgs, level, timeLayout, once, onces, envVars, hist>>

SetPairBody(key, val) ==
    /\ objects' = MapSet(objects, key, JPair(key, val))
    /\ lastOp' = [op |-> "SetPair", key |-> key, obj |-> JPair(key, val),
                  replaced |-> Replaces(objects, JPair(key, val))]
    /\ UNCHANGED <<out, msgs, level, timeLayout, once, onces, envVars, hist>>

SetBody(elem) ==
    /\ objects' = MapSet(objects, GetKey(elem), elem)
    /\ lastOp' = [op |-> "Set", key |-> GetKey(elem), obj |-> elem,
                  replaced |-> Replaces(objects, elem)]
    /\ UNCHANGED <<out, msgs, level, timeLayout, once, onces, envVars, hist>>

SetOutputBody(w) ==
    /\ out' = w
    /\ lastOp' = [op |-> "SetOutput"]
    /\ UNCHANGED <<msgs, level, timeLayout, objects, once, onces, envVars, hist>>

SetTimeBody(l) ==
    /\ timeLayout' = l
    /\ lastOp' = [op |-> "SetTime"]
    /\ UNCHANGED <<out, msgs, level, objects, once, onces, envVars, hist>>

ResetBody ==
    /\ onces' = Append(onces, NewOnce)
    /\ once' = Len(onces) + 1
    /\ lastOp' = [op |-> "Reset"]
    /\ hist' = [hist EXCEPT !.resets = @ + 1]
    /\ UNCHANGED <<out, msgs, level, timeLayout, objects, envVars>>

InfoBody(format, args) ==
    /\ msgs' = AppendMsg(msgs, format, args)
    /\ lastOp' = [op |-> "Info", format |-> format, args |-> args]
    /\ hist' = [hist EXCEPT !.recorded = @ + 1,
                            !.msgLog = Append(@, Recorded(format, args))]
    /\ UNCHANGED <<out, level, timeLayout, objects, once, onces, envVars>>

WarnBody(format, args) ==
    /\ level' = WarnLevel(level)
    /\ msgs' = AppendMsg(msgs, format, args)
    /\ lastOp' = [op |-> "Warn", format |-> format, args |-> args]
    /\ hist' = [hist EXCEPT !.recorded = @ + 1,
                            !.msgLog = Append(@, Recorded(format, args))]
    /\ UNCHANGED <<out, timeLayout, objects, once, onces, envVars>>

ErrorBody(text) ==
    /\ level' = ERROR
    /\ objects' = MapSet(objects, ERR_KEY, ErrorPair(text))
    /\ lastOp' = [op |-> "Error", text |-> text,
                  replaced |-> Replaces(objects, ErrorPair(text))]
    /\ UNCHANGED <<out, msgs, timeLayout, once, onces, envVars, hist>>

\* r is what the caller's LogFunc returned.
LogBody(r) ==
    /\ level' = r.level
    /\ msgs' = [msgs EXCEPT !.Vals = @ \o r.msgs]
    /\ objects' = SetAll(objects, r.objects)
    /\ lastOp' = [op |-> "Log", r |-> r, from |-> level]
    /\ hist' = [hist EXCEPT !.recorded = @ + Len(r.msgs), !.logCalled = TRUE,
                            !.msgLog = @ \o [i \in 1..Len(r.msgs) |-> Recorded(r.msgs[i], <<>>)]]
    /\ UNCHANGED <<out, timeLayout, once, onces, envVars>>

\* History of a Print call that starts now.
PrintStarts ==
    [hist EXCEPT !.prints = @ + 1,
                 !.earlyPrints = @ + (IF MsgCount(msgs) = 0 THEN 1 ELSE 0)]

\* A Print whose gate fires only when a record is written.
PrintBodyFiresOnWrite(minute) ==
    LET armed == ~onces[once].done
        emits == armed /\ HasMsgs(msgs)
        d == RecordDict(TimeFormat(minute, timeLayout), level, msgs, objects)
    IN /\ onces' = [onces EXCEPT ![once].done = @ \/ emits]
       /\ sink' = IF emits THEN [sink EXCEPT ![out] = Append(@, Payload(d))] ELSE sink
       /\ lastOp' = [op |-> "Print", armed |-> armed, wrote |-> emits]
       /\ hist' = PrintStarts
       /\ UNCHANGED <<out, msgs, level, timeLayout, objects, once, pretty>>

PrintBody(minute) ==
    LET armed == ~onces[once].done
        emits == armed /\ HasMsgs(msgs)
        d == RecordDict(TimeFormat(minute, timeLayout), level, msgs, objects)
    IN /\ onces' = [onces EXCEPT ![once].done = TRUE]
       /\ sink' = IF emits THEN [sink EXCEPT ![out] = Append(@, Payload(d))] ELSE sink
       /\ lastOp' = [op |-> "Print", armed |-> armed, wrote |-> emits]
       /\ hist' = PrintStarts
       /\ UNCHANGED <<out, msgs, level, timeLayout, objects, once, pretty>>

PrettyPrintBody(minute) ==
    LET armed == ~onces[once].done
        d == PrettyDict(TimeFormat(minute, timeLayout), level, msgs, objects)
    IN /\ onces' = [onces EXCEPT ![once].done = TRUE]
       /\ pretty' = IF armed THEN Append(pretty, PayloadNoNewline(d)) ELSE pretty
       /\ lastOp' = [op |-> "PrettyPrint", armed |-> armed, wrote |-> FALSE]
       /\ hist' = [hist EXCEPT !.pretties = @ + 1]
       /\ UNCHANGED <<out, msgs, level, timeLayout, objects, once, sink>>

---------------------------------------------------------------------------
(* Spec: one caller, each operation one atomic step.                       *)

\* What a sequential step leaves alone, and its count.
SeqFrame ==
    /\ nops' = nops + 1
    /\ UNCHANGED <<mu, thrVars, serVars>>

JLogGet ==
    /\ nops < MaxOps
    /\ \E k \in LookupKeys : GetBody(k)
    /\ SeqFrame

JLogGetT ==
    /\ nops < MaxOps
    /\ \E k \in LookupKeys, T \in Kinds : GetTBody(k, T)
    /\ SeqFrame

JLogPop ==
    /\ nops < MaxOps
    /\ \E k \in LookupKeys : PopBody(k)
    /\ SeqFrame

JLogSetPair ==
    /\ nops < MaxOps
    /\ \E kv \in FieldPairs : SetPairBody(kv[1], kv[2])
    /\ SeqFrame

JLogSet ==
    /\ nops < MaxOps
    /\ \E elem \in FieldObjs : SetBody(elem)
    /\ SeqFrame

JLogSetOutput ==
    /\ nops < MaxOps
    /\ \E w \in Sinks : SetOutputBody(w)
    /\ SeqFrame

JLogSetTime ==
    /\ nops < MaxOps
    /\ \E l \in Layouts : SetTimeBody(l)
    /\ SeqFrame

JLogReset ==
    /\ nops < MaxOps
    /\ hist.resets < MaxResets
    /\ ResetBody
    /\ SeqFrame

JLogPrint ==
    /\ nops < MaxOps
    /\ \E minute \in Minutes : PrintBody(minute)
    /\ SeqFrame

JLogPrettyPrint ==
    /\ nops < MaxOps
    /\ \E minute \in Minutes : PrettyPrintBody(minute)
    /\ SeqFrame

JLogInfo ==
    /\ nops < MaxOps
    /\ \E format \in Formats, args \in ArgLists : InfoBody(format, args)
    /\ SeqFrame

JLogWarn ==
    /\ nops < MaxOps
    /\ \E format \in Formats, args \in ArgLists : WarnBody(format, args)
    /\ SeqFrame

JLogError ==
    /\ nops < MaxOps
    /\ \E text \in ErrTexts : ErrorBody(text)
    /\ SeqFrame

JLogLog ==
    /\ nops < MaxOps
    /\ \E r \in LogResults : LogBody(r)
    /\ SeqFrame

Next ==
    \/ JLogGet
    \/ JLogGetT
    \/ JLogPop
    \/ JLogSetPair
    \/ JLogSet
    \/ JLogSetOutput
    \/ JLogSetTime
    \/ JLogReset
    \/ JLogPrint
    \/ JLogPrettyPrint
    \/ JLogInfo
    \/ JLogWarn
    \/ JLogError
    \/ JLogLog

Spec == Init /\ [][Next]_vars

---------------------------------------------------------------------------
(* SpecConc: several callers. An operation that takes j.mu is two steps:   *)
(* Lock (j.mu.Lock() returns) and Critical (its body, then the deferred    *)
(* Unlock). Get[T] and Reset take no lock. Print and PrettyPrint take no   *)
(* j.mu either: they run their function under j.once, reading the          *)
(* aggregator field by field.                                              *)

Threads == 1..NumThreads

LockedCalls ==
    { [op |-> "Info", format |-> S_a, args |-> <<>>],
      [op |-> "Info", format |-> S_a, args |-> <<QM>>],
      [op |-> "Warn", format |-> S_a, args |-> <<>>],
      [op |-> "Error", text |-> S_bad],
      [op |-> "Log", r |-> [level |-> INFO, msgs |-> <<S_qb>>, objects |-> <<EmptyGroup>>]],
      [op |-> "Set", elem |-> FullGroup],
      [op |-> "SetPair", key |-> S_a, val |-> S_y],
      [op |-> "Pop", key |-> S_a],
      [op |-> "Get", key |-> S_a],
      [op |-> "SetOutput", w |-> "buf"],
      [op |-> "SetTime", l |-> S_t4] }

UnlockedCalls ==
    { [op |-> "GetT", key |-> S_a, T |-> "JPair"],
      [op |-> "Reset"],
      [op |-> "Print"],
      [op |-> "PrettyPrint"] }

\* The operation of thread t returns.
Return(t) ==
    /\ pc' = [pc EXCEPT ![t] = "idle"]
    /\ loc' = [loc EXCEPT ![t] = [op |-> "none"]]

\* j.mu.Lock() of a locking operation returns.
Lock(t) ==
    /\ pc[t] = "idle"
    /\ nops < MaxConcOps
    /\ mu = 0
    /\ \E c \in LockedCalls : loc' = [loc EXCEPT ![t] = c]
    /\ pc' = [pc EXCEPT ![t] = "cs"]
    /\ mu' = t
    /\ nops' = nops + 1
    /\ UNCHANGED <<out, msgs, level, timeLayout, objects, once, onces>>
    /\ UNCHANGED <<envVars, lastOp, hist, serVars>>

\* The body of a locking operation, and defer j.mu.Unlock().
Critical(t) ==
    /\ pc[t] = "cs"
    /\ LET c == loc[t]
       IN \/ c.op = "Info" /\ InfoBody(c.format, c.args)
          \/ c.op = "Warn" /\ WarnBody(c.format, c.args)
          \/ c.op = "Error" /\ ErrorBody(c.text)
          \/ c.op = "Log" /\ LogBody(c.r)
          \/ c.op = "Set" /\ SetBody(c.elem)
          \/ c.op = "SetPair" /\ SetPairBody(c.key, c.val)
          \/ c.op = "Pop" /\ PopBody(c.key)
          \/ c.op = "Get" /\ GetBody(c.key)
          \/ c.op = "SetOutput" /\ SetOutputBody(c.w)
          \/ c.op = "SetTime" /\ SetTimeBody(c.l)
    /\ mu' = 0
    /\ Return(t)
    /\ UNCHANGED <<nops, serVars>>

PendingResets == Cardinality({u \in Threads : pc[u] = "reset"})

\* An operation that takes no j.mu is called. Print and PrettyPrint read the
\* pointer j.once here.
Invoke(t) ==
    /\ pc[t] = "idle"
    /\ nops < MaxConcOps
    /\ \E c \in UnlockedCalls :
        /\ c.op = "Reset" => hist.resets + PendingResets < MaxResets
        /\ loc' = [loc EXCEPT ![t] =
                      IF c.op \in {"Print", "PrettyPrint"}
                      THEN [op |-> c.op, o |-> once] ELSE c]
        /\ pc' = [pc EXCEPT ![t] =
                     CASE c.op = "GetT" -> "getT"
                       [] c.op = "Reset" -> "reset"
                       [] OTHER -> "do"]
        /\ hist' = CASE c.op = "Print" -> PrintStarts
                     [] c.op = "PrettyPrint" -> [hist EXCEPT !.pretties = @ + 1]
                     [] OTHER -> hist
    /\ nops' = nops + 1
    /\ UNCHANGED <<aggVars, envVars, lastOp, serVars>>

GetTStep(t) ==
    /\ pc[t] = "getT"
    /\ GetTBody(loc[t].key, loc[t].T)
    /\ Return(t)
    /\ UNCHANGED <<mu, nops, serVars>>

ResetStep(t) ==
    /\ pc[t] = "reset"
    /\ ResetBody
    /\ Return(t)
    /\ UNCHANGED <<mu, nops, serVars>>

\* sync.Once.Do on the Once the caller read: return if it is done, else take
\* its mutex (waiting while another caller holds it) and run the function.
OnceDo(t) ==
    /\ pc[t] = "do"
    /\ LET o == loc[t].o
       IN IF onces[o].done
          THEN /\ lastOp' = [op |-> loc[t].op, armed |-> FALSE, wrote |-> FALSE]
               /\ Return(t)
               /\ UNCHANGED onces
          ELSE /\ onces[o].m = 0
               /\ onces' = [onces EXCEPT ![o].m = t]
               /\ pc' = [pc EXCEPT ![t] = "f_head"]
               /\ UNCHANGED <<loc, lastOp>>
    /\ UNCHANGED <<out, msgs, level, timeLayout, objects, once, mu>>
    /\ UNCHANGED <<envVars, hist, nops, serVars>>

\* A Once that unlocks its mutex without storing done.
OnceDoneForgets(o) == [onces EXCEPT ![o] = [done |-> FALSE, m |-> 0]]

\* The function returns: Once stores done and unlocks its mutex.
OnceDone(o) == [onces EXCEPT ![o] = [done |-> TRUE, m |-> 0]]

\* ts := Format(Now, j.timeLayout); dict.SetPair(TIME_KEY, ts);
\* dict.SetPair(LEVEL_KEY, j.level)
EmitHead(t) ==
    /\ pc[t] = "f_head"
    /\ \E minute \in Minutes :
        LET ts == TimeFormat(minute, timeLayout)
        IN loc' = [loc EXCEPT ![t] =
                      [op |-> loc[t].op, o |-> loc[t].o, ts |-> ts, d |-> HeadDict(ts, level)]]
    /\ pc' = [pc EXCEPT ![t] = "f_msgs"]
    /\ UNCHANGED <<aggVars, envVars, lastOp, hist, nops, serVars>>

\* if len(j.msgs.Vals) > 0 { dict.Set(j.msgs) } else { return }
\* (PrettyPrint has no else branch).
EmitMsgs(t) ==
    /\ pc[t] = "f_msgs"
    /\ IF HasMsgs(msgs)
       THEN /\ loc' = [loc EXCEPT ![t].d = JDictSet(@, msgs)]
            /\ pc' = [pc EXCEPT ![t] = "f_objs"]
            /\ UNCHANGED <<onces, lastOp>>
       ELSE IF loc[t].op = "Print"
       THEN /\ onces' = OnceDone(loc[t].o)
            /\ lastOp' = [op |-> "Print", armed |-> TRUE, wrote |-> FALSE]
            /\ Return(t)
       ELSE /\ pc' = [pc EXCEPT ![t] = "f_objs"]
            /\ UNCHANGED <<loc, onces, lastOp>>
    /\ UNCHANGED <<out, msgs, level, timeLayout, objects, once, mu>>
    /\ UNCHANGED <<envVars, hist, nops, serVars>>

\* for _, elem := range j.objects { dict.Set(elem) }
EmitObjects(t) ==
    /\ pc[t] = "f_objs"
    /\ loc' = [loc EXCEPT ![t].d = SetRange(@, objects)]
    /\ pc' = [pc EXCEPT ![t] = "f_write"]
    /\ UNCHANGED <<aggVars, envVars, lastOp, hist, nops, serVars>>

\* Print: j.out.Write(dict.String() + "\n"); PrettyPrint: the renderer runs.
EmitWrite(t) ==
    /\ pc[t] = "f_write"
    /\ IF loc[t].op = "Print"
       THEN /\ sink' = [sink EXCEPT ![out] = Append(@, Payload(loc[t].d))]
            /\ UNCHANGED pretty
       ELSE /\ pretty' = Append(pretty, PayloadNoNewline(loc[t].d))
            /\ UNCHANGED sink
    /\ onces' = OnceDone(loc[t].o)
    /\ lastOp' = [op |-> loc[t].op, armed |-> TRUE, wrote |-> loc[t].op = "Print"]
    /\ Return(t)
    /\ UNCHANGED <<out, msgs, level, timeLayout, objects, once, mu>>
    /\ UNCHANGED <<hist, nops, serVars>>

NextConc ==
    \E t \in Threads :
        \/ Lock(t)
        \/ Critical(t)
        \/ Invoke(t)
        \/ GetTStep(t)
        \/ ResetStep(t)
        \/ OnceDo(t)
        \/ EmitHead(t)
        \/ EmitMsgs(t)
        \/ EmitObjects(t)
        \/ EmitWrite(t)

SpecConc == Init /\ [][NextConc]_vars

---------------------------------------------------------------------------
(* The serializer on its own: a JArray and a JDict built by their methods, *)
(* and String() applied to them.                                           *)

ArrVals == {S_a, S_qb}
ArrArgLists == {<<>>, <<S_a>>}
DictKeys == {TIME_KEY, LEVEL_KEY, ERR_KEY, MSG_KEY, S_a, S_ab, S_z}
DictObjs == {EmptyGroup, SomeArray, JPair(S_a, S_y)}

nonAgg == <<aggVars, envVars, histVars, thrVars>>

JArrayAdd ==
    /\ Len(arrHist) < MaxArr
    /\ \E val \in ArrVals :
        /\ arr' = Add(arr, val)
        /\ arrHist' = Append(arrHist, [m |-> "Add", format |-> val, args |-> <<>>])
    /\ str' = [of |-> "none", val |-> <<>>]
    /\ UNCHANGED <<dict, nonAgg>>

JArrayAddSafe ==
    /\ Len(arrHist) < MaxArr
    /\ \E format \in Formats, args \in ArrArgLists :
        /\ arr' = AddSafe(arr, format, args)
        /\ arrHist' = Append(arrHist, [m |-> "AddSafe", format |-> format, args |-> args])
    /\ str' = [of |-> "none", val |-> <<>>]
    /\ UNCHANGED <<dict, nonAgg>>

JArrayStringCall ==
    /\ str' = [of |-> "JArray", val |-> JArrayString(arr)]
    /\ UNCHANGED <<arr, arrHist, dict, nonAgg>>

NextArray ==
    \/ JArrayAdd
    \/ JArrayAddSafe
    \/ JArrayStringCall

SpecArray == Init /\ [][NextArray]_vars

HasRoom(k) == k \in DOMAIN dict \/ Cardinality(DOMAIN dict) < MaxKeys

JDictSetCall ==
    /\ \E elem \in DictObjs :
        /\ HasRoom(GetKey(elem))
        /\ dict' = JDictSet(dict, elem)
    /\ str' = [of |-> "none", val |-> <<>>]
    /\ UNCHANGED <<arr, arrHist, nonAgg>>

JDictSetPairCall ==
    /\ \E key \in DictKeys, val \in {S_x} :
        /\ HasRoom(key)
        /\ dict' = JDictSetPair(dict, key, val)
    /\ str' = [of |-> "none", val |-> <<>>]
    /\ UNCHANGED <<arr, arrHist, nonAgg>>

\* d.String() called directly: a panic reaches the caller.
JDictStringCall ==
    /\ str' = [of |-> "JDict", val |-> JDictString(dict)]
    /\ UNCHANGED <<arr, arrHist, dict, nonAgg>>

\* NewJGroup(key, d).String()
JGroupStringCall ==
    /\ str' = [of |-> "JGroup", val |-> JGroupString(JGroup(S_g, dict))]
    /\ UNCHANGED <<arr, arrHist, dict, nonAgg>>

NextDict ==
    \/ JDictSetCall
    \/ JDictSetPairCall
    \/ JDictStringCall
    \/ JGroupStringCall

SpecDict == Init /\ [][NextDict]_vars

\* The strings MakeSafe is applied to: all strings of up to MaxEscLen bytes
\* over 'a', the double quote and the backslash.
EscAlphabet == {97, 34, 92}
EscInputs == UNION {[1..n -> EscAlphabet] : n \in 0..MaxEscLen}

\* MakeSafe(s)
MakeSafeCall ==
    /\ \E s \in EscInputs : str' = [of |-> "MakeSafe", arg |-> s, val |-> MakeSafe(s)]
    /\ UNCHANGED <<arr, arrHist, dict, nonAgg>>

NextEscape == MakeSafeCall

SpecEscape == Init /\ [][NextEscape]_vars

---------------------------------------------------------------------------
(* Properties of the aggregator under Spec.                                *)

LevelRank(l) ==
    CASE l = INFO -> 0
      [] l = WARN -> 1
      [] l = ERROR -> 2
      [] OTHER -> -1

TotalWrites == Len(sink["stdout"]) + Len(sink["buf"])

\* C1: while Log has not been called, no step lowers the level in the order
\* INFO < WARN < ERROR; Info leaves the level as it is, Warn makes it WARN
\* unless it is ERROR, and a level of ERROR stays ERROR.
C1_LevelNeverDecreases ==
    [][(~hist'.logCalled) =>
          /\ LevelRank(level) <= LevelRank(level')
          /\ (lastOp'.op = "Info" => level' = level)
          /\ (lastOp'.op = "Warn" => level' = IF level = ERROR THEN ERROR ELSE WARN)
          /\ (level = ERROR => level' = ERROR)]_vars

\* Warn was called after Error (no Log) and the level is still ERROR.
C1_Witness ==
    /\ ~hist.logCalled
    /\ lastOp.op = "Warn"
    /\ level = ERROR
    /\ ERR_KEY \in DOMAIN objects

C4_ArmedPrintWritesRecord ==
    (lastOp.op = "Print" /\ lastOp.armed /\ MsgCount(msgs) > 0) =>
        /\ lastOp.wrote
        /\ Len(sink[out]) > 0
        /\ \E minute \in Minutes :
              sink[out][Len(sink[out])] =
                  JDictString(RecordDict(TimeFormat(minute, timeLayout),
                                         level, msgs, objects)) \o NL

\* C7 (as claimed): a Print call on a fired gate writes nothing, and the Print
\* call that finds the gate re-armed by Reset, on an aggregator with messages,
\* writes a record.
C7_PrintOncePerReset ==
    lastOp.op = "Print" =>
        /\ (~lastOp.armed => ~lastOp.wrote)
        /\ (lastOp.armed /\ hist.resets > 0 /\ MsgCount(msgs) > 0 => lastOp.wrote)

---------------------------------------------------------------------------
(* Properties of the serializer under SpecDict and SpecArray.              *)

\* The keys of S in ascending bytewise order: the i-th has i-1 keys below it.
Ascending(S) ==
    [i \in 1..Cardinality(S) |->
        CHOOSE k \in S : Cardinality({x \in S : StrLess(x, k)}) = i - 1]

ExpectedKeyOrder(S) ==
    SelectSeq(<<TIME_KEY, LEVEL_KEY, ERR_KEY>>, LAMBDA k : k \in S)
    \o Ascending(S \ {TIME_KEY, LEVEL_KEY, ERR_KEY})

RECURSIVE JoinSep(_)
JoinSep(ss) ==
    IF ss = <<>> THEN <<>>
    ELSE IF Len(ss) = 1 THEN ss[1]
    ELSE ss[1] \o CommaSp \o JoinSep(Tail(ss))

\* C8: the key order of a Dict's serialization is time, level, error (those
\* present), then the other keys ascending, each key once; the serialized
\* text lists the entries in that order.
C8_DictKeyOrder ==
    LET want == ExpectedKeyOrder(DOMAIN dict)
    IN /\ JDictKeys(dict) = want
       /\ (str.of = "JDict" /\ DOMAIN dict # {}) =>
              str.val = OC \o JoinSep([i \in 1..Len(want) |-> JObjectString(dict[want[i]])]) \o CC

\* A dict holding error, level, time, "z" and "a" was serialized.
C8_Witness ==
    /\ str.of = "JDict"
    /\ DOMAIN dict = {ERR_KEY, LEVEL_KEY, TIME_KEY, S_z, S_a}

RECURSIVE ConcatAll(_)
ConcatAll(ss) == IF ss = <<>> THEN <<>> ELSE ss[1] \o ConcatAll(Tail(ss))

\* The element an Add or AddSafe call inserts.
InsertedElem(h) ==
    IF h.m = "Add" THEN h.format
    ELSE MakeSafe(h.format) \o ConcatAll([i \in 1..Len(h.args) |-> MakeSafe(h.args[i])])

Quoted(hs) == [i \in 1..Len(hs) |-> QM \o InsertedElem(hs[i]) \o QM]

\* C9: the serialization of an Array lists the elements inserted by Add, in
\* insertion order, then those inserted by AddSafe, in insertion order, each
\* inserted element once.
C9_ArrayRawThenEscaped ==
    str.of = "JArray" =>
        str.val = QM \o S_z \o QM \o ColonSp \o OB
                  \o JoinSep(Quoted(SelectSeq(arrHist, LAMBDA h : h.m = "Add"))
                             \o Quoted(SelectSeq(arrHist, LAMBDA h : h.m = "AddSafe")))
                  \o CB

\* Add, AddSafe, Add were called in that order and the array was serialized.
C9_Witness ==
    /\ str.of = "JArray"
    /\ Len(arrHist) = 3
    /\ arrHist[1].m = "Add"
    /\ arrHist[2].m = "AddSafe"
    /\ arrHist[3].m = "Add"
    /\ arrHist[1].format # arrHist[3].format

\* C10 (as claimed): String() of a Dict with no entries is "{}", and a Group
\* whose Dict is empty renders as "g": {}.
C10_EmptyDictBraces ==
    DOMAIN dict = {} =>
        /\ (str.of = "JDict" => str.val = OC \o CC)
        /\ (str.of = "JGroup" => str.val = QM \o S_g \o QM \o ColonSp \o OC \o CC)

---------------------------------------------------------------------------
(* Properties of the concurrent callers under SpecConc.                    *)

\* The fields of the aggregator the next step of thread t reads and writes.
Reads(t) ==
    CASE pc[t] = "cs" /\ loc[t].op \in {"Warn"} -> {"level"}
      [] pc[t] = "cs" /\ loc[t].op \in {"Get", "Pop"} -> {"objects"}
      [] pc[t] = "getT" -> {"objects"}
      [] pc[t] = "f_head" -> {"timeLayout", "level"}
      [] pc[t] = "f_msgs" -> {"msgs"}
      [] pc[t] = "f_objs" -> {"objects"}
      [] pc[t] = "f_write" /\ loc[t].op = "Print" -> {"out"}
      [] OTHER -> {}

Writes(t) ==
    CASE pc[t] = "cs" /\ loc[t].op = "Info" -> {"msgs"}
      [] pc[t] = "cs" /\ loc[t].op = "Warn" -> {"level", "msgs"}
      [] pc[t] = "cs" /\ loc[t].op = "Error" -> {"level", "objects"}
      [] pc[t] = "cs" /\ loc[t].op = "Log" -> {"level", "msgs", "objects"}
      [] pc[t] = "cs" /\ loc[t].op \in {"Set", "SetPair", "Pop"} -> {"objects"}
      [] pc[t] = "cs" /\ loc[t].op = "SetOutput" -> {"out"}
      [] pc[t] = "cs" /\ loc[t].op = "SetTime" -> {"timeLayout"}
      [] pc[t] = "reset" -> {"once"}
      [] OTHER -> {}

\* C2 (as claimed): when every Print call so far was made on an aggregator
\* already holding a message, neither Reset nor PrettyPrint was called, and
\* all calls have returned, exactly one write has happened.
C2_ConcurrentPrintWritesOnce ==
    ( /\ \A t \in Threads : pc[t] = "idle"
      /\ hist.prints >= 1
      /\ hist.earlyPrints = 0
      /\ hist.resets = 0
      /\ hist.pretties = 0 )
    => TotalWrites = 1

\* C5 (as claimed): the record a Print is about to write is the record of the
\* aggregator's present state: no mutation has happened since Print read the
\* level, the messages and the fields.
C5_EmissionAtomic ==
    \A t \in Threads :
        (pc[t] = "f_write" /\ loc[t].op = "Print") =>
            loc[t].d = RecordDict(loc[t].ts, level, msgs, objects)

\* C6 (as claimed): never are two operations about to access the same field
\* of the aggregator, one of them writing it.
C6_NoConcurrentAccess ==
    \A t, u \in Threads :
        t # u => Writes(t) \cap (Reads(u) \cup Writes(u)) = {}

---------------------------------------------------------------------------
(* Further properties of the aggregator under Spec.                        *)

\* The payload of the most recent write to the current sink.
LastWritten == sink[out][Len(sink[out])]

\* sub occurs in s as a contiguous run of bytes.
Contains(s, sub) ==
    \E i \in 0..(Len(s) - Len(sub)) : SubSeq(s, i + 1, i + Len(sub)) = sub

\* C11 (as claimed): an Array with no element in either bucket serializes to
\* "key": [], and a Print call on an armed gate, on an aggregator that holds a
\* message (in either bucket) and an empty Array field, has written a record
\* containing "z": [].
C11_EmptyArrayBrackets ==
    /\ JArrayString(EmptyArray) = QM \o S_z \o QM \o ColonSp \o OB \o CB
    /\ ( /\ lastOp.op = "Print"
         /\ lastOp.armed
         /\ MsgCount(msgs) > 0
         /\ S_z \in DOMAIN objects
         /\ objects[S_z] = EmptyArray ) =>
           /\ lastOp.wrote
           /\ Contains(LastWritten, QM \o S_z \o QM \o ColonSp \o OB \o CB)

\* C12: Get(k) and Pop(k) for a key absent from the fields map return the
\* error "key not found" and no node, and leave the fields map, the level, the
\* messages and the gate as they were; Get(k) for a present key returns the
\* node stored under k and changes nothing.
C12_AbsentKeyNotFound ==
    [][ /\ (lastOp'.op \in {"Get", "Pop"} /\ lastOp'.key \notin DOMAIN objects) =>
              /\ lastOp'.err = "key not found"
              /\ "obj" \notin DOMAIN lastOp'
              /\ UNCHANGED <<objects, level, msgs, once, onces>>
        /\ (lastOp'.op = "Get" /\ lastOp'.key \in DOMAIN objects) =>
              /\ lastOp'.err = "nil"
              /\ lastOp'.obj = objects[lastOp'.key]
              /\ UNCHANGED <<aggVars, envVars>> ]_vars

\* Pop of an absent key was refused on an aggregator that has fields, a
\* message and level ERROR.
C12_Witness ==
    /\ lastOp.op = "Pop"
    /\ lastOp.err = "key not found"
    /\ DOMAIN objects # {}
    /\ MsgCount(msgs) > 0
    /\ level = ERROR

\* The node a written record shows under key k: the field stored under k when
\* there is one, otherwise the default entry (time, level or the messages).
ShownNode(k, ts) ==
    IF k \in DOMAIN objects THEN objects[k]
    ELSE CASE k = TIME_KEY -> JPair(TIME_KEY, ts)
           [] k = LEVEL_KEY -> JPair(LEVEL_KEY, level)
           [] k = MSG_KEY -> msgs

\* The top-level keys of a written record, in the order they are listed.
RecordKeys == ExpectedKeyOrder((DOMAIN objects) \cup {TIME_KEY, LEVEL_KEY, MSG_KEY})

\* The text of the record of the present state, for a clock showing `minute`.
ExpectedRecordText(minute) ==
    LET ts == TimeFormat(minute, timeLayout)
        want == RecordKeys
    IN OC \o JoinSep([i \in 1..Len(want) |-> JObjectString(ShownNode(want[i], ts))])
          \o CC \o NL

\* C13: the fields map holds for each key the node of the most recent Set or
\* SetPair for that key not followed by a Pop of it: a Set/SetPair step stores
\* its node under the node's key and touches no other key, a Pop step removes
\* its key only, every node sits under its own key, Get returns the stored
\* node, and a record written by Print shows for each key of the fields map
\* the node stored there.
C13_LastWriteWins ==
    [][ /\ lastOp'.op \in {"Set", "SetPair"} =>
              /\ DOMAIN objects' = (DOMAIN objects) \cup {lastOp'.key}
              /\ objects'[lastOp'.key] = lastOp'.obj
              /\ \A k \in (DOMAIN objects) \ {lastOp'.key} : objects'[k] = objects[k]
        /\ (lastOp'.op = "Pop" /\ lastOp'.key \in DOMAIN objects) =>
              /\ DOMAIN objects' = (DOMAIN objects) \ {lastOp'.key}
              /\ \A k \in DOMAIN objects' : objects'[k] = objects[k]
        /\ \A k \in DOMAIN objects' : objects'[k].Key = k
        /\ (lastOp'.op = "Get" /\ lastOp'.key \in DOMAIN objects) =>
              lastOp'.obj = objects[lastOp'.key]
        /\ (lastOp'.op = "Print" /\ lastOp'.wrote) =>
              /\ objects' = objects
              /\ \E minute \in Minutes :
                    sink'[out][Len(sink'[out])] = ExpectedRecordText(minute) ]_vars

\* SetPair("a", "y") replaced a different node stored under "a".
C13_Witness ==
    /\ lastOp.op = "SetPair"
    /\ lastOp.key = S_a
    /\ lastOp.replaced
    /\ objects[S_a] = JPair(S_a, S_y)

\* Escape, stated position by position: r is s with one backslash put before
\* each double quote. quotesUpTo(i) counts the quotes among s[1..i].
QuotesUpTo(s, i) == Cardinality({j \in 1..i : s[j] = 34})

IsEscapeOf(r, s) ==
    /\ Len(r) = Len(s) + QuotesUpTo(s, Len(s))
    /\ \A i \in 1..Len(s) :
          /\ r[i + QuotesUpTo(s, i)] = s[i]
          /\ s[i] = 34 => r[i + QuotesUpTo(s, i) - 1] = 92

\* The entries of a written record whose key is the reserved key error.
ErrorEntries == SelectSeq(RecordKeys, LAMBDA k : k = ERR_KEY)

\* The step just taken stored or removed a node under the key error by an
\* operation other than Error: Set, SetPair or Pop of that key, or Log with an
\* object of that key.
OtherErrorKeyWrite(op) ==
    \/ op.op \in {"Set", "SetPair", "Pop"} /\ op.key = ERR_KEY
    \/ op.op = "Log" /\ \E i \in 1..Len(op.r.objects) : op.r.objects[i].Key = ERR_KEY

C15_LevelInRange == level \in {INFO, WARN, ERROR}

\* The key each entry of the serialization of dict d is written with, in the
\* order of the entries.
RenderedKeys(d) == [i \in 1..Len(JDictKeys(d)) |-> d[JDictKeys(d)[i]].Key]

NoDuplicates(s) == \A i, j \in 1..Len(s) : s[i] = s[j] => i = j

IsPrefix(p, s) == Len(p) <= Len(s) /\ SubSeq(s, 1, Len(p)) = p

---------------------------------------------------------------------------
(* Properties of the escaper under SpecEscape.                             *)

\* C17: MakeSafe(s) is s with a backslash inserted before each double quote
\* and nothing else changed: it is s itself when s holds no quote, every quote
\* of the result has a backslash immediately before it, and the result is as
\* long as s plus the number of quotes in s.
C17_EscapeInsertsBackslashes ==
    str.of = "MakeSafe" =>
        LET s == str.arg
            r == str.val
        IN /\ IsEscapeOf(r, s)
           /\ (\A i \in 1..Len(s) : s[i] # 34) => r = s
           /\ \A i \in 1..Len(r) : r[i] = 34 => (i > 1 /\ r[i - 1] = 92)
           /\ Len(r) = Len(s) + Cardinality({i \in 1..Len(s) : s[i] = 34})

\* MakeSafe was applied to a string with two quotes and a backslash.
C17_Witness ==
    /\ str.of = "MakeSafe"
    /\ str.arg = <<34, 92, 97, 34>>
    /\ str.val = <<92, 34, 92, 97, 92, 34>>

---------------------------------------------------------------------------
(* Properties of the recording operations under Spec.                      *)

\* The last object of objs that has key k.
LastWithKey(objs, k) ==
    objs[CHOOSE i \in 1..Len(objs) :
            /\ objs[i].Key = k
            /\ \A j \in (i + 1)..Len(objs) : objs[j].Key # k]

C19_InfoWarnAppendOneMessage ==
    [][ lastOp'.op \in {"Info", "Warn"} =>
          LET f == lastOp'.format
              a == lastOp'.args
              e == MakeSafe(f) \o ConcatAll([i \in 1..Len(a) |-> MakeSafe(a[i])])
          IN /\ objects' = objects
             /\ msgs'.Key = msgs.Key
             /\ IF Len(a) = 0
                THEN /\ msgs'.Vals = msgs.Vals \o <<f>>
                     /\ msgs'.ByteVals = msgs.ByteVals
                ELSE /\ msgs'.Vals = msgs.Vals
                     /\ msgs'.ByteVals = msgs.ByteVals \o <<e>>
                     /\ IsEscapeOf(e, f \o ConcatAll(a)) ]_vars

\* Warn("\"b", "a", "\"") appended the escaped element \"ba\" after an
\* earlier escaped element.
C19_Witness ==
    /\ lastOp.op = "Warn"
    /\ lastOp.format = S_qb
    /\ lastOp.args = <<S_a, QM>>
    /\ Len(msgs.ByteVals) = 2
    /\ msgs.ByteVals[2] = <<92, 34, 98, 97, 92, 34>>

\* The array element a recorded message becomes.
RecordedElem(h) ==
    IF h.args = <<>> THEN h.format
    ELSE MakeSafe(h.format) \o ConcatAll([i \in 1..Len(h.args) |-> MakeSafe(h.args[i])])

\* The msgs entry that lists the messages recorded so far: those recorded
\* without arguments (Log's included) in order, then those with arguments.
ExpectedMsgsEntry ==
    LET raw == SelectSeq(hist.msgLog, LAMBDA h : h.args = <<>>)
        esc == SelectSeq(hist.msgLog, LAMBDA h : h.args # <<>>)
        all == raw \o esc
    IN QM \o MSG_KEY \o QM \o ColonSp \o OB
       \o JoinSep([i \in 1..Len(all) |-> QM \o RecordedElem(all[i]) \o QM]) \o CB

\* C20: in a record written by Print, the msgs array (the entry under msgs
\* when no field is stored under that key) lists every message recorded by
\* Info, Warn and Log before the emission, each once: first those recorded
\* without arguments and Log's, in recording order, then those recorded with
\* arguments, in recording order.
C20_RecordListsAllMessages ==
    (lastOp.op = "Print" /\ lastOp.wrote /\ MSG_KEY \notin DOMAIN objects) =>
        \E minute \in Minutes :
            LET ts == TimeFormat(minute, timeLayout)
                want == RecordKeys
            IN LastWritten =
                  OC \o JoinSep([i \in 1..Len(want) |->
                                   IF want[i] = MSG_KEY THEN ExpectedMsgsEntry
                                   ELSE JObjectString(ShownNode(want[i], ts))])
                     \o CC \o NL

\* Print wrote a record after a message with arguments, then one without,
\* then another one had been recorded.
C20_Witness ==
    /\ lastOp.op = "Print"
    /\ lastOp.wrote
    /\ MSG_KEY \notin DOMAIN objects
    /\ Len(hist.msgLog) = 3
    /\ hist.msgLog[1].args # <<>>
    /\ hist.msgLog[2].args = <<>>

---------------------------------------------------------------------------
(* Properties of the one-shot gate under Spec.                             *)

\* C22: once Print has been called the gate is fired, also when that call
\* wrote nothing because no message had been recorded; so when a Print was
\* called before any message was recorded and Reset has not been called,
\* nothing has been written, whatever was recorded and printed afterwards.
C22_SuppressedPrintFiresGate ==
    /\ (hist.prints >= 1 /\ hist.resets = 0) => onces[once].done
    /\ (hist.earlyPrints >= 1 /\ hist.resets = 0) => TotalWrites = 0
    /\ (lastOp.op = "Print" /\ ~lastOp.armed) => ~lastOp.wrote

\* Print was called with no message recorded, a message without arguments
\* was recorded after it, and Print was called again, with no Reset.
C22_Witness ==
    /\ lastOp.op = "Print"
    /\ hist.earlyPrints >= 1
    /\ hist.prints >= 2
    /\ hist.resets = 0
    /\ HasMsgs(msgs)

\* The text of the record of the present state without a msgs entry of its
\* own (a field stored under msgs is still shown), for a clock showing
\* `minute`, as handed to the pretty-printer: no newline.
ExpectedTextNoMsgs(minute) ==
    LET ts == TimeFormat(minute, timeLayout)
        want == ExpectedKeyOrder((DOMAIN objects) \cup {TIME_KEY, LEVEL_KEY})
    IN OC \o JoinSep([i \in 1..Len(want) |-> JObjectString(ShownNode(want[i], ts))])
          \o CC

\* C23: Print and PrettyPrint run under the same gate: each leaves it fired,
\* a call of either on a fired gate produces no output of any kind, and only
\* Reset re-arms it. On an armed gate PrettyPrint renders a record and writes
\* nothing to the sink; when no message has been recorded the record it
\* renders has no msgs entry, and when messages without arguments have been
\* recorded it is the record Print would write, less the newline.
C23_SharedGate ==
    [][ /\ lastOp'.op \in {"Print", "PrettyPrint"} =>
              /\ onces'[once'].done
              /\ lastOp'.armed = ~onces[once].done
              /\ onces[once].done => (sink' = sink /\ pretty' = pretty)
        /\ (lastOp'.op = "PrettyPrint" /\ ~onces[once].done) =>
              /\ sink' = sink
              /\ Len(pretty') = Len(pretty) + 1
              /\ MsgCount(msgs) = 0 =>
                    \E minute \in Minutes :
                        pretty'[Len(pretty')] = ExpectedTextNoMsgs(minute)
              /\ HasMsgs(msgs) =>
                    \E minute \in Minutes :
                        pretty'[Len(pretty')] \o NL = ExpectedRecordText(minute)
        /\ (lastOp'.op # "Reset" /\ onces[once].done) => onces'[once'].done ]_vars

\* PrettyPrint rendered a record with no msgs entry while no message was
\* recorded; a message was recorded afterwards and a Print call, with no Reset
\* in between, wrote nothing.
C23_Witness ==
    /\ lastOp.op = "Print"
    /\ ~lastOp.armed
    /\ hist.resets = 0
    /\ hist.prints = 1
    /\ Len(pretty) = 1
    /\ ~Contains(pretty[1], MSG_KEY)
    /\ HasMsgs(msgs)
    /\ TotalWrites = 0

---------------------------------------------------------------------------
(* Fields stored under the reserved keys.                                  *)

\* The first two entries of a written record: the time entry and the level
\* entry, each the field stored under that key when there is one, otherwise
\* the default built from the clock and from the aggregator's level.
ExpectedHead(minute) ==
    LET timeEntry == IF TIME_KEY \in DOMAIN objects
                     THEN JObjectString(objects[TIME_KEY])
                     ELSE QM \o TIME_KEY \o QM \o ColonSp
                          \o QM \o TimeFormat(minute, timeLayout) \o QM
        levelEntry == IF LEVEL_KEY \in DOMAIN objects
                      THEN JObjectString(objects[LEVEL_KEY])
                      ELSE QM \o LEVEL_KEY \o QM \o ColonSp \o QM \o level \o QM
    IN OC \o timeEntry \o CommaSp \o levelEntry \o CommaSp

\* C24: in a record written by Print, the entry under time, level or msgs is
\* the field stored under that key when the fields map holds one, in place of
\* the default entry; with no field under level, the level entry shows the
\* aggregator's level at the time of the Print call.
C24_FieldsReplaceDefaults ==
    (lastOp.op = "Print" /\ lastOp.wrote) =>
        \E minute \in Minutes :
            /\ IsPrefix(ExpectedHead(minute), LastWritten)
            /\ LastWritten = ExpectedRecordText(minute)
            /\ IF MSG_KEY \in DOMAIN objects
               THEN /\ Contains(LastWritten, CommaSp \o JObjectString(objects[MSG_KEY]))
                    /\ ~Contains(LastWritten, JArrayString(msgs))
               ELSE Contains(LastWritten, CommaSp \o JArrayString(msgs))

\* Print wrote a record while fields were stored under the keys time and
\* level, the level of the aggregator being WARN.
C24_Witness ==
    /\ lastOp.op = "Print"
    /\ lastOp.wrote
    /\ TIME_KEY \in DOMAIN objects
    /\ LEVEL_KEY \in DOMAIN objects
    /\ level = WARN

---------------------------------------------------------------------------
(* SpecLive: the callers of SpecConc under fair scheduling, with Log calls  *)
(* whose function calls back into the aggregator. A locking operation is    *)
(* three steps here: Call (the caller reaches j.mu.Lock()), Acquire (Lock   *)
(* returns) and Critical. Log holds j.mu while it runs f (denoue.go:235-238).*)

\* What a caller-supplied LogFunc calls on the aggregator it logs to.
NestedCalls ==
    { [op |-> "Info", format |-> S_a, args |-> <<>>],
      [op |-> "Set", elem |-> FullGroup],
      [op |-> "Log", r |-> [level |-> INFO, msgs |-> <<S_qb>>, objects |-> <<EmptyGroup>>]] }

\* Log calls whose function f calls n before it returns r.
ReentrantLogs ==
    { [op |-> "Log", r |-> [level |-> WARN, msgs |-> <<>>, objects |-> <<>>], calls |-> n] :
        n \in NestedCalls }

CallsBack(c) == "calls" \in DOMAIN c

\* A locking operation is called: the caller reaches j.mu.Lock().
Call(t) ==
    /\ pc[t] = "idle"
    /\ nops < MaxConcOps
    /\ \E c \in LockedCalls \cup ReentrantLogs : loc' = [loc EXCEPT ![t] = c]
    /\ pc' = [pc EXCEPT ![t] = "lock"]
    /\ nops' = nops + 1
    /\ UNCHANGED <<aggVars, envVars, lastOp, hist, serVars>>

\* j.mu.Lock() returns, for a caller and for a call made from inside f alike:
\* sync.Mutex is not reentrant, Lock waits until the mutex is unlocked
\* whoever holds it.
Acquire(t) ==
    /\ pc[t] \in {"lock", "nested"}
    /\ mu = 0
    /\ mu' = t
    /\ pc' = [pc EXCEPT ![t] = IF CallsBack(loc[t]) THEN "f" ELSE "cs"]
    /\ UNCHANGED <<out, msgs, level, timeLayout, objects, once, onces>>
    /\ UNCHANGED <<loc, nops, envVars, lastOp, hist, serVars>>

\* level, msgs, objects := f(err, args...), where f calls an operation of the
\* same aggregator: the caller, holding j.mu, reaches j.mu.Lock() again.
LogFuncCalls(t) ==
    /\ pc[t] = "f"
    /\ loc' = [loc EXCEPT ![t] = loc[t].calls]
    /\ pc' = [pc EXCEPT ![t] = "nested"]
    /\ UNCHANGED <<aggVars, envVars, lastOp, hist, nops, serVars>>

NextLive ==
    \E t \in Threads :
        \/ Call(t)
        \/ Acquire(t)
        \/ LogFuncCalls(t)
        \/ Critical(t)
        \/ Invoke(t)
        \/ GetTStep(t)
        \/ ResetStep(t)
        \/ OnceDo(t)
        \/ EmitHead(t)
        \/ EmitMsgs(t)
        \/ EmitObjects(t)
        \/ EmitWrite(t)

\* Fair scheduling: a goroutine that can take a step takes it; a goroutine
\* waiting for a mutex gets it if the mutex is free again and again
\* (sync.Mutex hands over to a starving waiter). Nothing obliges a caller to
\* call.
Fairness ==
    \A t \in Threads :
        /\ SF_vars(Acquire(t))
        /\ SF_vars(OnceDo(t))
        /\ WF_vars(LogFuncCalls(t))
        /\ WF_vars(Critical(t))
        /\ WF_vars(GetTStep(t))
        /\ WF_vars(ResetStep(t))
        /\ WF_vars(EmitHead(t))
        /\ WF_vars(EmitMsgs(t))
        /\ WF_vars(EmitObjects(t))
        /\ WF_vars(EmitWrite(t))

SpecLive == Init /\ [][NextLive]_vars /\ Fairness

\* C25 (as claimed): under fair scheduling every call that has started
\* returns, and j.mu, once locked, is unlocked again, also when the call is a
\* Log whose function calls an operation of the same aggregator.
C25_EveryCallReturns ==
    /\ \A t \in Threads : (pc[t] # "idle") ~> (pc[t] = "idle")
    /\ (mu # 0) ~> (mu = 0)


---------------------------------------------------------------------------
(* Print and Reset in concurrent callers, under SpecConc.                   *)

\* C26: in every interleaving, the number of writes to the sinks is at most
\* one plus the number of Reset calls completed or started; and every write
\* is the one write of one Print call, which returns with it, so that a Print
\* made after a Reset that replaced a gate not yet fired writes at most once.
C26_WritesBoundedByResets ==
    [][ /\ TotalWrites' <= 1 + hist'.resets + PendingResets'
        /\ TotalWrites' # TotalWrites =>
              /\ TotalWrites' = TotalWrites + 1
              /\ \E t \in Threads :
                    /\ pc[t] = "f_write"
                    /\ loc[t].op = "Print"
                    /\ pc'[t] = "idle" ]_vars

\* Reset replaced the first gate before it fired, while a Print that had read
\* it was still in flight; a later Print has written one record through the
\* new gate.
C26_Witness ==
    /\ hist.resets = 1
    /\ once = 2
    /\ ~onces[1].done
    /\ \E t \in Threads : pc[t] # "idle" /\ loc[t].op = "Print" /\ loc[t].o = 1
    /\ lastOp.op = "Print"
    /\ lastOp.wrote
    /\ hist.prints = 2
    /\ TotalWrites = 1

====
